---- MODULE Spec2Model ----
(***************************************************************************)
(* A model of scripts/sync_okrs.py: the weekly job that reads OKR rows     *)
(* from a Notion database, summarises each row's Linear project and writes *)
(* the summary back to the row.                                            *)
(*                                                                         *)
(* Python strings are TLA+ strings (Len, SubSeq and \o act on them);       *)
(* an Optional value is a record [some, val]; a dict is a function whose   *)
(* DOMAIN is the set of keys that are present.                             *)
(***************************************************************************)
EXTENDS Integers, Sequences, FiniteSets, TLC

VARIABLES
    \* bucket_issue
    state_type, state_name, bucket,
    \* top_titles
    issues, n, titles,
    \* format_exec_update
    project, today, created, report,
    \* fetch_project_and_issues
    nodes, fetched, after,
    \* notion_db_query
    server, results, start_cursor, next_cursor, sent,
    \* notion_append_weekly_log_blocks
    body, next_id, log, outcome, had_heading, calls,
    \* main
    pages, idx, latest, logged,
    \* where the operation under way stands
    pc

bucketVars == <<state_type, state_name, bucket>>
topVars == <<issues, n, titles>>
formatVars == <<project, today, created, report>>
fetchVars == <<nodes, fetched, after>>
queryVars == <<server, results, start_cursor, next_cursor, sent>>
appendVars == <<body, next_id, log, outcome, had_heading, calls>>
mainVars == <<pages, idx, latest, logged>>
vars == <<state_type, state_name, bucket, issues, n, titles,
          project, today, created, report,
          nodes, fetched, after,
          server, results, start_cursor, next_cursor, sent,
          body, next_id, log, outcome, had_heading, calls,
          pages, idx, latest, logged, pc>>

---------------------------------------------------------------------------
(* Python values *)

None == [some |-> FALSE, val |-> ""]
Some(s) == [some |-> TRUE, val |-> s]

\* x or "": a None and an empty string both give ""
OrEmpty(x) == IF x.some THEN x.val ELSE ""

\* str(x) as an f-string renders it
Str(x) == IF x.some THEN x.val ELSE "None"

CharAt(s, i) == SubSeq(s, i, i)

LowerChar(c) ==
    CASE c = "A" -> "a" [] c = "B" -> "b" [] c = "C" -> "c" [] c = "D" -> "d"
      [] c = "E" -> "e" [] c = "F" -> "f" [] c = "G" -> "g" [] c = "H" -> "h"
      [] c = "I" -> "i" [] c = "J" -> "j" [] c = "K" -> "k" [] c = "L" -> "l"
      [] c = "M" -> "m" [] c = "N" -> "n" [] c = "O" -> "o" [] c = "P" -> "p"
      [] c = "Q" -> "q" [] c = "R" -> "r" [] c = "S" -> "s" [] c = "T" -> "t"
      [] c = "U" -> "u" [] c = "V" -> "v" [] c = "W" -> "w" [] c = "X" -> "x"
      [] c = "Y" -> "y" [] c = "Z" -> "z"
      [] OTHER -> c

RECURSIVE StrLower(_)
\* str.lower()
StrLower(s) ==
    IF Len(s) = 0 THEN ""
    ELSE LowerChar(CharAt(s, 1)) \o StrLower(SubSeq(s, 2, Len(s)))

\* sub in s
StrContains(s, sub) ==
    \E i \in 1..(Len(s) - Len(sub) + 1) : SubSeq(s, i, i + Len(sub) - 1) = sub

StartsWith(s, prefix) ==
    Len(s) >= Len(prefix) /\ SubSeq(s, 1, Len(prefix)) = prefix

---------------------------------------------------------------------------
(* bucket_issue *)

Buckets == {"done", "in_review", "in_progress", "other"}

bucket_issue_review_first(st_type, st_name) ==
    LET st == StrLower(OrEmpty(st_type))
        name == StrLower(OrEmpty(st_name))
    IN  IF StrContains(name, "review") THEN "in_review"
        ELSE IF st = "completed" \/ name \in {"done", "completed"} THEN "done"
        ELSE IF st = "started" \/ name \in {"in progress", "in-progress"} THEN "in_progress"
        ELSE "other"

bucket_issue(st_type, st_name) ==
    LET st == StrLower(OrEmpty(st_type))
        name == StrLower(OrEmpty(st_name))
    IN  IF st = "completed" \/ name \in {"done", "completed"} THEN "done"
        ELSE IF StrContains(name, "review") THEN "in_review"
        ELSE IF st = "started" \/ name \in {"in progress", "in-progress"} THEN "in_progress"
        ELSE "other"

\* the status type codes and labels the collaborator may send
StateTypes ==
    {None} \cup {Some(s) : s \in {"", "completed", "Completed", "started", "STARTED",
                                   "backlog", "unstarted", "canceled"}}

StateNames ==
    {None} \cup {Some(s) : s \in {"", "Done", "done", "COMPLETED", "In Review", "review",
                                   "Code Review", "Done - in review", "In Progress",
                                   "in-progress", "Todo", "Backlog", "Previewed"}}


InitBucket ==
    /\ state_type \in StateTypes
    /\ state_name \in StateNames
    /\ bucket = ""
    /\ pc = "bucket_issue"

IdleBucket ==
    /\ state_type = None
    /\ state_name = None
    /\ bucket = ""

BucketIssue ==
    /\ pc = "bucket_issue"
    /\ bucket' = bucket_issue(state_type, state_name)
    /\ pc' = "returned"
    /\ UNCHANGED <<state_type, state_name>>

\* C3: bucket_issue returns one of the four buckets for every (type, label)
\* pair, missing values and any letter case included, with the precedence
\* done > in_review > in_progress > other: a pair passing the done test is
\* "done" whatever else it matches, and a label containing "review" that is
\* not done is "in_review" even when the type is "started".
\* The tests are stated on the inputs as the collaborator sends them.
C3_DoneInput ==
    \/ state_type \in {Some("completed"), Some("Completed")}
    \/ state_name \in {Some("Done"), Some("done"), Some("COMPLETED")}

C3_ReviewInput ==
    state_name \in {Some("In Review"), Some("review"), Some("Code Review"),
                    Some("Done - in review"), Some("Previewed")}

C3_ProgressInput ==
    \/ state_type \in {Some("started"), Some("STARTED")}
    \/ state_name \in {Some("In Progress"), Some("in-progress")}

C3_BucketPrecedence ==
    pc = "returned" =>
        /\ bucket \in Buckets
        /\ C3_DoneInput => bucket = "done"
        /\ (~C3_DoneInput /\ C3_ReviewInput) => bucket = "in_review"
        /\ (~C3_DoneInput /\ ~C3_ReviewInput /\ C3_ProgressInput) => bucket = "in_progress"
        /\ (~C3_DoneInput /\ ~C3_ReviewInput /\ ~C3_ProgressInput) => bucket = "other"

C3_Witness ==
    /\ state_type = Some("completed")
    /\ state_name = Some("In Review")
    /\ pc = "returned"
    /\ bucket = "done"

---------------------------------------------------------------------------
(* top_titles *)

\* dict.get(key, default)
Get(d, k, default) == IF k \in DOMAIN d THEN d[k] ELSE default

\* the characters of an ISO-8601 timestamp, in code point order
TimestampChars == "-.0123456789:TZ"

CharOrd(c) ==
    IF \E i \in 1..Len(TimestampChars) : CharAt(TimestampChars, i) = c
    THEN CHOOSE i \in 1..Len(TimestampChars) : CharAt(TimestampChars, i) = c
    ELSE 0

RECURSIVE StrLess(_, _)
\* a < b on Python strings: lexicographic, a proper prefix first
StrLess(a, b) ==
    IF Len(b) = 0 THEN FALSE
    ELSE IF Len(a) = 0 THEN TRUE
    ELSE IF CharAt(a, 1) = CharAt(b, 1)
         THEN StrLess(SubSeq(a, 2, Len(a)), SubSeq(b, 2, Len(b)))
         ELSE CharOrd(CharAt(a, 1)) < CharOrd(CharAt(b, 1))

Reverse(s) == [i \in 1..Len(s) |-> s[Len(s) + 1 - i]]

UpdatedAtKey(x) == Get(x, "updatedAt", "")

RECURSIVE InsertAsc(_, _)
\* x put into an ascending list behind every element that is not greater
InsertAsc(sorted, x) ==
    IF sorted = <<>> THEN <<x>>
    ELSE IF StrLess(UpdatedAtKey(x), UpdatedAtKey(Head(sorted)))
         THEN <<x>> \o sorted
         ELSE <<Head(sorted)>> \o InsertAsc(Tail(sorted), x)

RECURSIVE StableSortAsc(_)
StableSortAsc(s) ==
    IF s = <<>> THEN <<>>
    ELSE InsertAsc(StableSortAsc(SubSeq(s, 1, Len(s) - 1)), s[Len(s)])

\* sorted(xs, key=updatedAt) followed by a reversal: descending, ties reversed
sorted_then_reversed(xs) == Reverse(StableSortAsc(xs))

\* sorted(xs, key=lambda x: x.get("updatedAt", ""), reverse=True): the list is
\* reversed, sorted stably ascending and reversed again
sorted_by_updatedAt_desc(xs) == Reverse(StableSortAsc(Reverse(xs)))

\* xs[:k] for k >= 0
Take(xs, k) == SubSeq(xs, 1, IF k < Len(xs) THEN k ELSE Len(xs))

TitleOf(i) == i["identifier"] \o ": " \o i["title"]

top_titles(xs, k) ==
    LET issues_sorted == sorted_by_updatedAt_desc(xs)
    IN  [j \in 1..Len(Take(issues_sorted, k)) |-> TitleOf(issues_sorted[j])]

MaxIssues == 4
MaxN == 3

Item(id, title, type, name) ==
    [identifier |-> id, title |-> title, state |-> [type |-> type, name |-> name]]

ItemAt(id, title, type, name, at) ==
    [identifier |-> id, title |-> title, updatedAt |-> at,
     state |-> [type |-> type, name |-> name]]

\* the work items of the project; LIN-5 carries no updatedAt
AllItems ==
    << ItemAt("LIN-1", "Login", Some("completed"), Some("Done"), "2026-02-20T10:00:00.000Z"),
       ItemAt("LIN-2", "Logout", Some("started"), Some("In Review"), "2026-02-20T10:00:00.000Z"),
       ItemAt("LIN-3", "Tokens", Some("started"), Some("In Progress"), "2026-02-21T09:30:00.000Z"),
       ItemAt("LIN-4", "Audit", Some("backlog"), Some("Backlog"), "2026-02-19T23:59:59.000Z"),
       Item("LIN-5", "Docs", Some("completed"), Some("Done")),
       ItemAt("LIN-6", "SSO", Some("started"), Some("In Progress"), "2026-02-20T10:00:00.000Z") >>

\* when each item was last modified, as a day-and-second count (0: never)
ModifiedAt(id) ==
    CASE id = "LIN-1" -> 20100000
      [] id = "LIN-2" -> 20100000
      [] id = "LIN-3" -> 21093000
      [] id = "LIN-4" -> 19235959
      [] id = "LIN-5" -> 0
      [] id = "LIN-6" -> 20100000

Range(s) == {s[i] : i \in DOMAIN s}

\* the lists of at most k distinct items of S
ItemLists(S, k) ==
    {s \in UNION {[1..m -> S] : m \in 0..k} :
        \A i, j \in DOMAIN s : i # j => s[i] # s[j]}

InitTop ==
    /\ issues \in ItemLists(Range(AllItems), MaxIssues)
    /\ n \in 0..MaxN
    /\ titles = <<>>
    /\ pc = "top_titles"

IdleTop ==
    /\ issues = <<>>
    /\ n = 0
    /\ titles = <<>>

TopTitles ==
    /\ pc = "top_titles"
    /\ titles' = top_titles(issues, n)
    /\ pc' = "returned"
    /\ UNCHANGED <<issues, n>>

\* the place of an input item's title in the result, 0 when it is not there
C10_Place(i) ==
    IF \E j \in DOMAIN titles : titles[j] = TitleOf(issues[i])
    THEN CHOOSE j \in DOMAIN titles : titles[j] = TitleOf(issues[i])
    ELSE 0

\* item a of the input must come before item b in the result
C10_Before(a, b) ==
    \/ ModifiedAt(issues[a]["identifier"]) > ModifiedAt(issues[b]["identifier"])
    \/ /\ ModifiedAt(issues[a]["identifier"]) = ModifiedAt(issues[b]["identifier"])
       /\ a < b

\* C10: top_titles(issues, n) returns at most n titles, each the title of an
\* input item, no item twice; of two items with distinct timestamps the more
\* recent one is never after the older one nor dropped while the older one is
\* kept, and items with equal timestamps keep their input order.
C10_TopTitlesOrder ==
    pc = "returned" =>
        /\ Len(titles) <= n
        /\ Len(titles) <= Len(issues)
        /\ \A j \in DOMAIN titles : \E i \in DOMAIN issues : C10_Place(i) = j
        /\ \A a, b \in DOMAIN issues :
              (C10_Before(a, b) /\ C10_Place(b) # 0) =>
                  /\ C10_Place(a) # 0
                  /\ C10_Place(a) < C10_Place(b)

\* a tie (LIN-6 before LIN-1 in the input), a more recent item behind them and
\* an older item that is cut off
C10_Witness ==
    /\ pc = "returned"
    /\ n = 3
    /\ Len(issues) = 4
    /\ issues[1]["identifier"] = "LIN-6"
    /\ issues[2]["identifier"] = "LIN-4"
    /\ issues[3]["identifier"] = "LIN-1"
    /\ issues[4]["identifier"] = "LIN-3"
    /\ titles = <<"LIN-3: Tokens", "LIN-6: SSO", "LIN-1: Login">>

---------------------------------------------------------------------------
(* dates: datetime.date *)

Date(y, m, d) == [y |-> y, m |-> m, d |-> d]

IsLeap(y) == y % 4 = 0 /\ (y % 100 # 0 \/ y % 400 = 0)

DaysInMonth(y, m) ==
    IF m = 2 THEN (IF IsLeap(y) THEN 29 ELSE 28)
    ELSE IF m \in {4, 6, 9, 11} THEN 30 ELSE 31

DaysBeforeYear(y) ==
    LET p == y - 1 IN p * 365 + (p \div 4) - (p \div 100) + (p \div 400)

RECURSIVE DaysBeforeMonth(_, _)
DaysBeforeMonth(y, m) ==
    IF m = 1 THEN 0 ELSE DaysBeforeMonth(y, m - 1) + DaysInMonth(y, m - 1)

\* date.toordinal()
ToOrdinal(dt) == DaysBeforeYear(dt.y) + DaysBeforeMonth(dt.y, dt.m) + dt.d

Digits == "0123456789"

DigitValue(c) == (CHOOSE i \in 1..10 : CharAt(Digits, i) = c) - 1

RECURSIVE StrToNat(_)
\* int(s) of a string of digits
StrToNat(s) ==
    IF Len(s) = 0 THEN 0
    ELSE 10 * StrToNat(SubSeq(s, 1, Len(s) - 1)) + DigitValue(CharAt(s, Len(s)))

RECURSIVE NatToStr(_)
NatToStr(k) ==
    IF k < 10 THEN CharAt(Digits, k + 1)
    ELSE NatToStr(k \div 10) \o CharAt(Digits, (k % 10) + 1)

\* str(k) of an int
IntToStr(k) == IF k < 0 THEN "-" \o NatToStr(0 - k) ELSE NatToStr(k)

\* date.fromisoformat("YYYY-MM-DD")
FromIsoFormat(s) ==
    Date(StrToNat(SubSeq(s, 1, 4)), StrToNat(SubSeq(s, 6, 7)), StrToNat(SubSeq(s, 9, 10)))

---------------------------------------------------------------------------
(* format_exec_update *)

BodyLimit == 400
FreshDays == 7
TopN == 5

RECURSIVE ReplaceNewlines(_)
\* s.replace('\n', ' ')
ReplaceNewlines(s) ==
    IF Len(s) = 0 THEN ""
    ELSE IF Len(s) = 1 THEN (IF s = "\n" THEN " " ELSE s)
    ELSE LET half == Len(s) \div 2
         IN  ReplaceNewlines(SubSeq(s, 1, half))
             \o ReplaceNewlines(SubSeq(s, half + 1, Len(s)))

\* s[:k]
StrTake(s, k) == SubSeq(s, 1, IF k < Len(s) THEN k ELSE Len(s))

RECURSIVE Join(_, _)
\* sep.join(parts)
Join(parts, sep) ==
    IF Len(parts) = 0 THEN ""
    ELSE IF Len(parts) = 1 THEN parts[1]
    ELSE parts[1] \o sep \o Join(Tail(parts), sep)

\* the gate of line 278 with the boundary day left out
is_recent_exclusive(days_ago) == days_ago < FreshDays

\* days_ago <= 7
is_recent(days_ago) == days_ago <= FreshDays

\* the "recent" line of the report, None when there is none
recent_update(proj, day) ==
    LET updates == Get(Get(proj, "projectUpdates", <<>>), "nodes", <<>>)
    IN  IF Len(updates) = 0 THEN None
        ELSE LET u == updates[1]
                 created_str == StrTake(u["createdAt"], 10)
                 created_date == FromIsoFormat(created_str)
                 days_ago == ToOrdinal(day) - ToOrdinal(created_date)
                 body_clean == ReplaceNewlines(StrTake(u["body"], BodyLimit))
             IN  IF is_recent(days_ago)
                 THEN Some("**Most recent update** (" \o IntToStr(days_ago) \o "d ago, "
                           \o u["user"]["name"] \o "): " \o body_clean)
                 ELSE None

\* the items of xs that bucket_issue puts into bucket b, in order
InBucket(xs, b) ==
    SelectSeq(xs, LAMBDA it : bucket_issue(Get(it["state"], "type", None),
                                           Get(it["state"], "name", None)) = b)

completed_line(done, in_review) ==
    "**Completed/In Review** (" \o IntToStr(Len(done)) \o " done, "
    \o IntToStr(Len(in_review)) \o " in review): "
    \o Join(top_titles(done \o in_review, TopN), "; ")

progress_line(in_progress) ==
    "**In Progress** (" \o IntToStr(Len(in_progress)) \o "): "
    \o Join(top_titles(in_progress, TopN), "; ")

status_line(proj) ==
    LET health == Get(proj, "health", Some("unknown"))
        state == Get(proj, "state", Some("unknown"))
    IN  "**Status:** " \o Str(state) \o ", health: " \o Str(health)

\* the report with a progress line for whatever is not done or in review
format_lines_other_in_progress(proj, xs, day) ==
    LET recent == recent_update(proj, day)
        done == InBucket(xs, "done")
        in_review == InBucket(xs, "in_review")
        in_progress == SelectSeq(xs, LAMBDA it : it \notin Range(done \o in_review))
    IN  (IF recent.some /\ recent.val # "" THEN <<recent.val>> ELSE <<>>)
        \o (IF Len(done) > 0 \/ Len(in_review) > 0
            THEN <<completed_line(done, in_review)>> ELSE <<>>)
        \o (IF Len(in_progress) > 0 THEN <<progress_line(in_progress)>> ELSE <<>>)
        \o <<status_line(proj)>>

\* the list "lines" that format_exec_update joins
format_lines(proj, xs, day) ==
    LET recent == recent_update(proj, day)
        done == InBucket(xs, "done")
        in_review == InBucket(xs, "in_review")
        in_progress == InBucket(xs, "in_progress")
    IN  (IF recent.some /\ recent.val # "" THEN <<recent.val>> ELSE <<>>)
        \o (IF Len(done) > 0 \/ Len(in_review) > 0
            THEN <<completed_line(done, in_review)>> ELSE <<>>)
        \o (IF Len(in_progress) > 0 THEN <<progress_line(in_progress)>> ELSE <<>>)
        \o <<status_line(proj)>>

format_exec_update(proj, xs, day) == Join(format_lines(proj, xs, day), "\n")

MaxReportIssues == 2

RECURSIVE Repeat(_, _)
Repeat(s, k) ==
    IF k = 0 THEN ""
    ELSE IF k % 2 = 1 THEN s \o Repeat(s, k - 1)
    ELSE LET half == Repeat(s, k \div 2) IN half \o half

\* k in decimal, filled with zeros to the width
Pad(k, width) == Repeat("0", width - Len(NatToStr(k))) \o NatToStr(k)

\* date.isoformat()
IsoDate(dt) == Pad(dt.y, 4) \o "-" \o Pad(dt.m, 2) \o "-" \o Pad(dt.d, 2)

\* the createdAt the collaborator sends for an update made on date dt
IsoTimestamp(dt) == IsoDate(dt) \o "T23:59:59.000Z"

NoDate == Date(0, 0, 0)

Todays == {Date(2026, 3, 1), Date(2026, 1, 3), Date(2024, 3, 1)}

CreatedDates ==
    {Date(2026, 2, 21), Date(2026, 2, 22), Date(2026, 3, 2), Date(2025, 12, 26),
     Date(2025, 12, 27), Date(2024, 2, 22), Date(2024, 2, 23)}

\* a body with line breaks on an even day of the month, else a body of 402
\* characters
BodyOn(dt) == IF dt.d % 2 = 0 THEN "Shipped SSO\nNext: audit\n" ELSE Repeat("ab", 201)

UpdateOn(dt) ==
    [body |-> BodyOn(dt), createdAt |-> IsoTimestamp(dt), user |-> [name |-> "Kat"]]

\* a field of the project record: missing, null, or a value
FieldChoices(key, value) ==
    {<<>>, [k \in {key} |-> None], [k \in {key} |-> Some(value)]}

ProjectBase == [id |-> "p1", name |-> Some("Auth flows")]

InitFormat ==
    /\ today \in Todays
    /\ created \in CreatedDates \cup {NoDate}
    /\ \E st \in FieldChoices("state", "started"), he \in FieldChoices("health", "onTrack"),
          up \in {<<>>, [k \in {"projectUpdates"} |->
                           [nodes |-> IF created = NoDate THEN <<>>
                                      ELSE <<UpdateOn(created)>>]]} :
          /\ (created # NoDate => up # <<>>)
          /\ project = ProjectBase @@ st @@ he @@ up
    /\ issues \in ItemLists({AllItems[i] : i \in 1..4}, MaxReportIssues)
    /\ report = ""
    /\ pc = "format_exec_update"

IdleFormat ==
    /\ project = ProjectBase
    /\ today = NoDate
    /\ created = NoDate
    /\ report = ""

FormatExecUpdate ==
    /\ pc = "format_exec_update"
    /\ report' = format_exec_update(project, issues, today)
    /\ pc' = "returned"
    /\ UNCHANGED <<project, today, created, issues>>

\* the places of the line breaks of s
Breaks(s) == {i \in 1..Len(s) : CharAt(s, i) = "\n"}

\* the k-th smallest element of a set of numbers
RECURSIVE Nth(_, _)
Nth(S, k) ==
    LET least == CHOOSE x \in S : \A y \in S : x <= y
    IN  IF k = 1 THEN least ELSE Nth(S \ {least}, k - 1)

\* the lines of a text
SplitLines(s) ==
    LET brk == Breaks(s)
        cut == [k \in 0..(Cardinality(brk) + 1) |->
                   IF k = 0 THEN 0
                   ELSE IF k = Cardinality(brk) + 1 THEN Len(s) + 1
                   ELSE Nth(brk, k)]
    IN  [k \in 1..(Cardinality(brk) + 1) |-> SubSeq(s, cut[k - 1] + 1, cut[k] - 1)]

\* what a line of the report is, by its heading
LineKind(line) ==
    IF StartsWith(line, "**Most recent update** (") THEN "narrative"
    ELSE IF StartsWith(line, "**Completed/In Review** (") THEN "completed"
    ELSE IF StartsWith(line, "**In Progress** (") THEN "in_progress"
    ELSE IF StartsWith(line, "**Status:** ") THEN "status"
    ELSE "?"

ReportKinds ==
    LET lines == SplitLines(report) IN [i \in DOMAIN lines |-> LineKind(lines[i])]

\* the day after dt
NextDay(dt) ==
    IF dt.d < DaysInMonth(dt.y, dt.m) THEN Date(dt.y, dt.m, dt.d + 1)
    ELSE IF dt.m < 12 THEN Date(dt.y, dt.m + 1, 1)
    ELSE Date(dt.y + 1, 1, 1)

RECURSIVE AddDays(_, _)
AddDays(dt, k) == IF k = 0 THEN dt ELSE AddDays(NextDay(dt), k - 1)

DateLeq(a, b) ==
    \/ a.y < b.y
    \/ a.y = b.y /\ a.m < b.m
    \/ a.y = b.y /\ a.m = b.m /\ a.d <= b.d

\* the project has a narrative update and today is no later than the seventh
\* day after the day it was made
C4_Fresh == created # NoDate /\ DateLeq(today, AddDays(created, 7))

\* C4: the report has the narrative line if and only if the project has a most
\* recent narrative update made at most 7 days before today, by calendar date:
\* made exactly 7 days before today it is included, 8 days before it is not.
C4_NarrativeIffFresh ==
    pc = "returned" =>
        ((\E i \in DOMAIN ReportKinds : ReportKinds[i] = "narrative") <=> C4_Fresh)

\* an update of 22 February 2026 reported on 1 March 2026: 7 days
C4_Witness ==
    /\ pc = "returned"
    /\ today = Date(2026, 3, 1)
    /\ created = Date(2026, 2, 22)
    /\ StartsWith(report, "**Most recent update** (7d ago, Kat): ")

\* the bucket of each work item of AllItems, by its status as sent
C5_BucketOf(id) ==
    CASE id \in {"LIN-1", "LIN-5"} -> "done"
      [] id = "LIN-2" -> "in_review"
      [] id \in {"LIN-3", "LIN-6"} -> "in_progress"
      [] id = "LIN-4" -> "other"

C5_Any(b) == \E i \in DOMAIN issues : C5_BucketOf(issues[i]["identifier"]) = b

\* C5: the report is the lines [narrative, if fresh], [completed/in review, if
\* some item is done or in review], [in progress, if some item is in
\* progress], [status], in this order; items that are "other" add no line, so
\* with no items, or only "other" ones, it is the status line, preceded by the
\* narrative line when that is fresh.
C5_ReportLines ==
    pc = "returned" =>
        ReportKinds =
            (IF C4_Fresh THEN <<"narrative">> ELSE <<>>)
            \o (IF C5_Any("done") \/ C5_Any("in_review") THEN <<"completed">> ELSE <<>>)
            \o (IF C5_Any("in_progress") THEN <<"in_progress">> ELSE <<>>)
            \o <<"status">>

\* only an "other" item, and a fresh narrative
C5_Witness ==
    /\ pc = "returned"
    /\ Len(issues) = 1
    /\ issues[1]["identifier"] = "LIN-4"
    /\ C4_Fresh
    /\ ReportKinds = <<"narrative", "status">>

\* what the status line is to show for a field of the project
C6_Shown(key) ==
    IF key \in DOMAIN project /\ project[key].some THEN project[key].val ELSE "unknown"

\* C6: the last line of the report is the status line, and it shows "unknown"
\* for the lifecycle state, and for the health label, when the project record
\* has no value for it (the field missing or null), and the value otherwise.
C6_StatusUnknown ==
    pc = "returned" =>
        LET lines == SplitLines(report)
        IN  lines[Len(lines)] =
            "**Status:** " \o C6_Shown("state") \o ", health: " \o C6_Shown("health")

---------------------------------------------------------------------------
(* fetch_project_and_issues *)

\* first: 250 of ISSUES_QUERY, and the cap of the loop
IssuesPageSize == 250
IssuesCap == 2000

\* how many projects the lookup by slug may match
MaxNodes == 2

\* the sizes of the pages the collaborator serves
ChunkSizes == {0, 1, IssuesPageSize - 1, IssuesPageSize}

\* The work items are opaque to the loop: the list "issues" is kept as its
\* length, "fetched", and the cursor as the number of items served so far.
InitFetch ==
    /\ nodes \in 0..MaxNodes
    /\ fetched = 0
    /\ after = None
    /\ pc = "fetch_project"

IdleFetch ==
    /\ nodes = 0
    /\ fetched = 0
    /\ after = None

\* linear_graphql(PROJECT_QUERY): the call fails, or no project matches, or
\* the first match is taken
FetchProject ==
    /\ pc = "fetch_project"
    /\ \E ok \in BOOLEAN :
          pc' = IF ~ok THEN "raised"
                ELSE IF nodes = 0 THEN "raised_not_found"
                ELSE "fetch_issues"
    /\ UNCHANGED <<nodes, fetched, after>>

\* len(issues) > 2000, taken after the page is added
over_cap(len_after) == len_after > IssuesCap

\* one turn of the while loop: a page of the collaborator's choice
FetchIssuesPage ==
    /\ pc = "fetch_issues"
    /\ \E ok \in BOOLEAN, chunk \in ChunkSizes, hasNextPage \in BOOLEAN :
          IF ~ok
          THEN pc' = "raised" /\ UNCHANGED <<fetched, after>>
          ELSE /\ fetched' = fetched + chunk
               /\ IF ~hasNextPage
                  THEN pc' = "returned" /\ UNCHANGED after
                  ELSE /\ after' = Some(IntToStr(fetched + chunk))
                       /\ pc' = IF over_cap(fetched + chunk)
                                THEN "returned" ELSE "fetch_issues"
    /\ UNCHANGED nodes

NextFetch ==
    \/ FetchProject /\ UNCHANGED <<bucketVars, topVars, formatVars, queryVars, appendVars, mainVars>>
    \/ FetchIssuesPage /\ UNCHANGED <<bucketVars, topVars, formatVars, queryVars, appendVars, mainVars>>

\* C7: whatever pages the collaborator serves (each of at most 250 items, with
\* any hasNextPage), the list returned holds at most 2000 work items, and the
\* cap raises no error.
C7_AtMostCap == pc = "returned" => fetched <= IssuesCap

---------------------------------------------------------------------------
(* notion_db_query *)

MaxQueryPages == 2
MaxResults == 4

\* A page of the database as the collaborator answers it: its rows, has_more
\* (missing, false or true) and next_cursor (missing or null, or the number of
\* the page it names). The page asked for with no start_cursor is page 1.
\* "sent" is the number of requests made so far, modulo 2.
HasMoreChoices == {<<>>, [k \in {"has_more"} |-> FALSE], [k \in {"has_more"} |-> TRUE]}

CursorChoices(i) ==
    {<<>>, [k \in {"next_cursor"} |-> None], [k \in {"next_cursor"} |-> Some(IntToStr(i + 1))]}

PageChoices(i) ==
    {[k \in {"results"} |-> rows] @@ hm @@ nc :
        rows \in {<<>>, <<"row-" \o IntToStr(i)>>},
        hm \in HasMoreChoices, nc \in CursorChoices(i)}

Servers ==
    UNION {{srv \in [1..m -> UNION {PageChoices(i) : i \in 1..m}] :
               \A i \in 1..m : srv[i] \in PageChoices(i)} : m \in 1..MaxQueryPages}

\* a Python value taken as a condition
Truthy(x) == x.some /\ x.val # ""

InitQuery ==
    /\ server \in Servers
    /\ results = <<>>
    /\ start_cursor = None
    /\ next_cursor = None
    /\ sent = 0
    /\ pc = "notion_db_query"

IdleQuery ==
    /\ server = <<>>
    /\ results = <<>>
    /\ start_cursor = None
    /\ next_cursor = None
    /\ sent = 0

\* the cursor the next request carries: the payload keeps its start_cursor
\* when next_cursor is not truthy
payload_cursor(prev, next) == IF Truthy(next) THEN next ELSE prev

\* j.get("has_more"): a missing flag reads as None, which is not truthy
has_more(j) == Get(j, "has_more", FALSE)

\* one turn of the while loop
QueryPage ==
    /\ pc = "notion_db_query"
    /\ Len(results) <= MaxResults
    /\ LET cursor == payload_cursor(start_cursor, next_cursor)
           asked == IF cursor.some THEN StrToNat(cursor.val) ELSE 1
       IN  /\ start_cursor' = cursor
           /\ sent' = (sent + 1) % 2
           /\ \E ok \in BOOLEAN :
                 IF ~ok \/ asked \notin DOMAIN server
                 THEN pc' = "raised" /\ UNCHANGED <<results, next_cursor>>
                 ELSE LET j == server[asked]
                      IN  /\ results' = results \o j["results"]
                          /\ IF ~has_more(j)
                             THEN pc' = "returned" /\ UNCHANGED next_cursor
                             ELSE /\ next_cursor' = Get(j, "next_cursor", None)
                                  /\ pc' = "notion_db_query"
    /\ UNCHANGED server

NextQuery == QueryPage /\ UNCHANGED <<bucketVars, topVars, formatVars, fetchVars, appendVars, mainVars>>

\* the enumeration has ended: it returned or raised
QueryEnded == pc \in {"returned", "raised"}

\* C8: the enumeration of the rows ends for every server, one whose pages say
\* has_more with a missing or null next_cursor included (an enumeration that
\* has outgrown MaxResults is not followed further).
C8_Terminates == <>(QueryEnded \/ Len(results) > MaxResults)

---------------------------------------------------------------------------
(* notion_append_weekly_log_blocks *)

HEADER == "Weekly Linear update log"

\* page_size=100 of the two listings, the cap on the sub-bullets and on the
\* length of one of them
BlocksPageSize == 100
SublinesCap == 20
TextLimit == 2000

MaxAppendCalls == 2
MaxDays == 1

IsSpace(c) == c \in {" ", "\n", "\t", "\r"}

\* str.strip()
Strip(s) ==
    IF \A i \in 1..Len(s) : IsSpace(CharAt(s, i)) THEN ""
    ELSE LET first == CHOOSE i \in 1..Len(s) :
                        ~IsSpace(CharAt(s, i)) /\ \A j \in 1..(i - 1) : IsSpace(CharAt(s, j))
             last == CHOOSE i \in 1..Len(s) :
                        ~IsSpace(CharAt(s, i)) /\ \A j \in (i + 1)..Len(s) : IsSpace(CharAt(s, j))
         IN  SubSeq(s, first, last)

\* a block of the page: rich_text is the list of its plain_text segments,
\* children the sub-bullets of a log entry
Block(id, type, rich_text, children) ==
    [id |-> id, type |-> type, rich_text |-> rich_text, children |-> children]

RECURSIVE ListFrom(_, _)
\* the listing of lines 107-118: the pages of 100 blocks from block "start"
\* on, each asked for with the cursor of the one before
ListFrom(blocks, start) ==
    LET last == IF start + BlocksPageSize - 1 < Len(blocks)
                THEN start + BlocksPageSize - 1 ELSE Len(blocks)
        has_more_blocks == last < Len(blocks)
    IN  SubSeq(blocks, start, last)
        \o (IF has_more_blocks THEN ListFrom(blocks, last + 1) ELSE <<>>)

\* the listing of line 144: the first page of 100 blocks only
FirstPage(blocks) == Take(blocks, BlocksPageSize)

IsHeaderBlock(b) ==
    /\ b.type = "heading_3"
    /\ Strip(Join(b.rich_text, "")) = HEADER

\* the id of the first heading_3 whose text is HEADER, 0 (None) without one
find_heading(blocks) ==
    IF \E i \in DOMAIN blocks : IsHeaderBlock(blocks[i])
    THEN blocks[CHOOSE i \in DOMAIN blocks :
                    IsHeaderBlock(blocks[i]) /\ \A j \in 1..(i - 1) : ~IsHeaderBlock(blocks[j])].id
    ELSE 0

\* the lines of exec_update that are not blank, stripped
sublines(exec_update) ==
    LET ls == SplitLines(exec_update)
        stripped == [i \in DOMAIN ls |-> Strip(ls[i])]
    IN  SelectSeq(stripped, LAMBDA line : line # "")

\* the title of the entry ("--" stands for the dash of line 159)
bullet_title(day, project_name) == IsoDate(day) \o " -- " \o project_name

\* the bulleted_list_item of line 164
log_entry(id, day, exec_update, project_name) ==
    Block(id, "bulleted_list_item", <<bullet_title(day, project_name)>>,
          LET subs == Take(sublines(exec_update), SublinesCap)
          IN  [i \in DOMAIN subs |-> StrTake(subs[i], TextLimit)])

\* the place of the block with this id
PlaceOf(blocks, id) == CHOOSE i \in DOMAIN blocks : blocks[i].id = id

\* an append that leaves the page alone when it has an entry of this title
insert_after_unless_titled(blocks, id, child) ==
    IF \E i \in DOMAIN blocks :
          blocks[i].type = child.type /\ blocks[i].rich_text = child.rich_text
    THEN blocks
    ELSE LET at == PlaceOf(blocks, id)
         IN  SubSeq(blocks, 1, at) \o <<child>> \o SubSeq(blocks, at + 1, Len(blocks))

\* PATCH children with "after": the child is put right behind that block
insert_after(blocks, id, child) ==
    LET at == PlaceOf(blocks, id)
    IN  SubSeq(blocks, 1, at) \o <<child>> \o SubSeq(blocks, at + 1, Len(blocks))

Paragraphs(k) == [i \in 1..k |-> Block(i, "paragraph", <<"note">>, <<>>)]

\* the bodies a row may have before the job runs: k paragraphs, and behind
\* them nothing or one more block
Bodies ==
    {Paragraphs(k) : k \in {0, 1, BlocksPageSize - 1, BlocksPageSize, BlocksPageSize + 1}}
    \cup {Paragraphs(k) \o <<Block(k + 1, "heading_3", <<HEADER>>, <<>>)>> :
            k \in {0, 1, BlocksPageSize}}
    \cup {Paragraphs(1) \o <<Block(2, "heading_3", <<" Weekly Linear", " update log ">>, <<>>)>>,
          Paragraphs(1) \o <<Block(2, "heading_2", <<HEADER>>, <<>>)>>,
          Paragraphs(1) \o <<Block(2, "heading_3", <<"Weekly log">>, <<>>)>>}

FirstDay == Date(2026, 2, 28)

Labels == {"Auth flows", "Billing"}

Reports == {"**Status:** started, health: onTrack", "**In Progress** (1): LIN-3: Tokens\n\n  **Status:** None, health: None  \n"}

InitAppend ==
    /\ body \in Bodies
    /\ next_id = BlocksPageSize + 3
    /\ log = <<>>
    /\ outcome = ""
    /\ had_heading = FALSE
    /\ calls = 0
    /\ today = FirstDay
    /\ pc = "notion_append_weekly_log_blocks"

IdleAppend ==
    /\ body = <<>>
    /\ next_id = 0
    /\ log = <<>>
    /\ outcome = ""
    /\ had_heading = FALSE
    /\ calls = 0

\* One call. Each request to the collaborator may fail (raise_for_status):
\* "fail" names the request that does, "none" when all succeed.
AppendWeeklyLog(exec_update, project_name, fail) ==
    /\ pc = "notion_append_weekly_log_blocks"
    /\ calls < MaxAppendCalls
    /\ calls' = calls + 1
    /\ had_heading' = (find_heading(body) # 0)
    /\ LET blocks == ListFrom(body, 1)
           found == find_heading(blocks)
           with_heading == body \o <<Block(next_id, "heading_3", <<HEADER>>, <<>>)>>
           refreshed == find_heading(FirstPage(with_heading))
           body1 == IF found = 0 THEN with_heading ELSE body
           id1 == IF found = 0 THEN next_id + 1 ELSE next_id
           heading_block_id == IF found = 0 THEN refreshed ELSE found
       IN  IF fail = "list" \/ (fail = "create" /\ found = 0)
           THEN outcome' = "http_error" /\ UNCHANGED <<body, next_id, log>>
           ELSE IF fail = "refresh" /\ found = 0
           THEN outcome' = "http_error" /\ body' = body1 /\ next_id' = id1 /\ UNCHANGED log
           ELSE IF heading_block_id = 0
           THEN outcome' = "runtime_error" /\ body' = body1 /\ next_id' = id1 /\ UNCHANGED log
           ELSE IF fail = "append"
           THEN outcome' = "http_error" /\ body' = body1 /\ next_id' = id1 /\ UNCHANGED log
           ELSE /\ body' = insert_after(body1, heading_block_id,
                                        log_entry(id1, today, exec_update, project_name))
                /\ next_id' = id1 + 1
                /\ log' = Append(log, bullet_title(today, project_name))
                /\ outcome' = "ok"
    /\ UNCHANGED <<today, pc>>

\* the next day begins
Midnight ==
    /\ pc = "notion_append_weekly_log_blocks"
    /\ ToOrdinal(today) - ToOrdinal(FirstDay) < MaxDays
    /\ today' = NextDay(today)
    /\ UNCHANGED <<appendVars, pc>>

notAppend == <<bucketVars, topVars, project, created, report, fetchVars, queryVars, mainVars>>

NextAppend ==
    \/ \E exec_update \in Reports, project_name \in Labels,
          fail \in {"none", "list", "create", "refresh", "append"} :
            AppendWeeklyLog(exec_update, project_name, fail) /\ UNCHANGED notAppend
    \/ Midnight /\ UNCHANGED notAppend

\* the log entries of the body: the bullets the calls have put there
Entries == SelectSeq(body, LAMBDA b : b.type = "bulleted_list_item")

CountIn(seq, x) == Cardinality({i \in DOMAIN seq : seq[i] = x})

\* C2: the append is not idempotent: the body holds one log entry for every
\* successful append, so two successful appends of the same day and label
\* leave two distinct entries of the same title; no entry is merged, replaced
\* or removed.
C2_OneEntryPerAppend ==
    /\ Len(Entries) = Len(log)
    /\ \A i, j \in DOMAIN Entries : i # j => Entries[i].id # Entries[j].id
    /\ \A k \in DOMAIN log :
          CountIn([i \in DOMAIN Entries |-> Entries[i].rich_text], <<log[k]>>) = CountIn(log, log[k])

\* two successful appends of one day and one label
C2_Witness ==
    /\ Len(log) = 2
    /\ log[1] = log[2]
    /\ Len(Entries) = 2
    /\ Entries[1].rich_text = Entries[2].rich_text
    /\ Entries[1].id # Entries[2].id

MarkerHeadings == {i \in DOMAIN body : IsHeaderBlock(body[i])}

\* C9: a call on a body without the marker heading creates the heading and, in
\* the same call, puts the new entry right under it, whatever the length of
\* the body (unless a request to the collaborator fails); and the body never
\* holds a second marker heading, exactly one once an append has succeeded.
C9_FindOrCreate ==
    /\ (calls > 0 /\ ~had_heading /\ outcome # "http_error") =>
          /\ outcome = "ok"
          /\ \E i \in MarkerHeadings :
                /\ i < Len(body)
                /\ body[i + 1].type = "bulleted_list_item"
                /\ body[i + 1].rich_text = <<log[Len(log)]>>
    /\ Cardinality(MarkerHeadings) <= 1
    /\ Len(log) > 0 => Cardinality(MarkerHeadings) = 1

---------------------------------------------------------------------------
(* main *)

MaxRows == 2

\* the characters that end the slug: [^/?#]
EndsSlug(c) == c \in {"/", "?", "#"}

\* re.search(r"/project/([^/?#]+)", url or ""): the first place where the
\* marker is followed by a character of the slug, and the longest run of such
\* characters from there; None without a match
linear_slug_from_project_url(url) ==
    LET text == OrEmpty(url)
        marker == "/project/"
        Matches(i) ==
            /\ i + Len(marker) <= Len(text)
            /\ SubSeq(text, i, i + Len(marker) - 1) = marker
            /\ ~EndsSlug(CharAt(text, i + Len(marker)))
    IN  IF \E i \in 1..Len(text) : Matches(i)
        THEN LET at == CHOOSE i \in 1..Len(text) :
                          Matches(i) /\ \A j \in 1..(i - 1) : ~Matches(j)
                 from == at + Len(marker)
                 to == CHOOSE e \in from..Len(text) :
                          /\ \A j \in from..e : ~EndsSlug(CharAt(text, j))
                          /\ (e = Len(text) \/ EndsSlug(CharAt(text, e + 1)))
             IN  Some(SubSeq(text, from, to))
        ELSE None

Urls ==
    {"https://linear.app/tinyfish/project/auth-flows-9cb6/overview",
     "https://linear.app/tinyfish/project/billing-77aa?tab=issues",
     "https://linear.app/tinyfish/project/",
     "https://linear.app/tinyfish/team/ENG/active"}

\* How the collaborators answer the calls made for a row: all succeed ("ok"),
\* the project lookup matches nothing, or the named call fails.
Answers == {"ok", "not_found", "fetch_error", "update_error", "append_error"}

Rows == [url : {Some(u) : u \in Urls}, objective : {"Ship auth"}, answer : Answers]

InitMain ==
    /\ pages \in UNION {[1..m -> Rows] : m \in 0..MaxRows}
    /\ idx = 0
    /\ latest = [j \in DOMAIN pages |-> None]
    /\ logged = [j \in DOMAIN pages |-> 0]
    /\ today = FirstDay
    /\ pc = "main"

IdleMain ==
    /\ pages = <<>>
    /\ idx = 0
    /\ latest = <<>>
    /\ logged = <<>>

\* pages = notion_db_query(...): the rows, or the exception of a failed request
MainQuery ==
    /\ pc = "main"
    /\ \E ok \in BOOLEAN :
          IF ok THEN pc' = "main_loop" /\ idx' = 1
                ELSE pc' = "crashed" /\ UNCHANGED idx
    /\ UNCHANGED <<pages, latest, logged, today>>

\* the project and the work items the tracker holds for a row
ProjectOfRow(p) == ProjectBase @@ [state |-> Some("started"), health |-> None]
IssuesOfRow(p) == Take(AllItems, 3)

\* what an exception raised in the body of the for loop does to the job: no
\* handler encloses it, the process ends
row_failed(at) == [pc |-> "crashed", idx |-> at]

\* one turn of the for loop, and the end of the loop behind the last row
MainRow ==
    /\ pc = "main_loop"
    /\ idx <= Len(pages)
    /\ LET p == pages[idx]
           slug == linear_slug_from_project_url(p.url)
           exec_update == format_exec_update(ProjectOfRow(p), IssuesOfRow(p), today)
           after_row == IF idx = Len(pages) THEN "exit" ELSE "main_loop"
       IN  IF ~Truthy(slug)
           THEN pc' = after_row /\ idx' = idx + 1 /\ UNCHANGED <<latest, logged>>
           ELSE IF p.answer \in {"not_found", "fetch_error"}
           THEN /\ pc' = row_failed(idx).pc /\ idx' = row_failed(idx).idx
                /\ UNCHANGED <<latest, logged>>
           ELSE IF p.answer = "update_error"
           THEN /\ pc' = row_failed(idx).pc /\ idx' = row_failed(idx).idx
                /\ UNCHANGED <<latest, logged>>
           ELSE IF p.answer = "append_error"
           THEN /\ pc' = row_failed(idx).pc /\ idx' = row_failed(idx).idx
                /\ latest' = [latest EXCEPT ![idx] = Some(StrTake(exec_update, TextLimit))]
                /\ UNCHANGED logged
           ELSE /\ latest' = [latest EXCEPT ![idx] = Some(StrTake(exec_update, TextLimit))]
                /\ logged' = [logged EXCEPT ![idx] = @ + 1]
                /\ pc' = after_row
                /\ idx' = idx + 1
    /\ UNCHANGED <<pages, today>>

\* the for loop over no rows
MainNoRows ==
    /\ pc = "main_loop"
    /\ Len(pages) = 0
    /\ pc' = "exit"
    /\ UNCHANGED <<pages, idx, latest, logged, today>>

notMain == <<bucketVars, topVars, project, created, report, fetchVars, queryVars, appendVars>>

NextMain ==
    \/ MainQuery /\ UNCHANGED notMain
    \/ MainRow /\ UNCHANGED notMain
    \/ MainNoRows /\ UNCHANGED notMain

\* the rows whose URL holds a project slug
C1_HasSlug(p) ==
    p.url \in {Some("https://linear.app/tinyfish/project/auth-flows-9cb6/overview"),
               Some("https://linear.app/tinyfish/project/billing-77aa?tab=issues")}

\* C1: a failure that belongs to one row (no project for its slug, or a failed
\* call made for it) skips that row only: when the job has ended after
\* reading the rows, every row with a slug whose own calls all succeed has its
\* report written and its log entry appended.
C1_RowFailureIsolated ==
    (pc \in {"exit", "crashed"} /\ idx >= 1) =>
        \A j \in DOMAIN pages :
            (C1_HasSlug(pages[j]) /\ pages[j].answer = "ok") =>
                latest[j].some /\ logged[j] = 1

---------------------------------------------------------------------------
(* specifications *)

InitSpecBucket == InitBucket /\ IdleTop /\ IdleFormat /\ IdleFetch /\ IdleQuery /\ IdleAppend /\ IdleMain
NextBucket == BucketIssue /\ UNCHANGED <<topVars, formatVars, fetchVars, queryVars, appendVars, mainVars>>
SpecBucket == InitSpecBucket /\ [][NextBucket]_vars

InitSpecTop == InitTop /\ IdleBucket /\ IdleFormat /\ IdleFetch /\ IdleQuery /\ IdleAppend /\ IdleMain
NextTop == TopTitles /\ UNCHANGED <<bucketVars, formatVars, fetchVars, queryVars, appendVars, mainVars>>
SpecTop == InitSpecTop /\ [][NextTop]_vars

InitSpecFormat == InitFormat /\ IdleBucket /\ n = 0 /\ titles = <<>> /\ IdleFetch /\ IdleQuery /\ IdleAppend /\ IdleMain
NextFormat == FormatExecUpdate /\ UNCHANGED <<bucketVars, n, titles, fetchVars, queryVars, appendVars, mainVars>>
SpecFormat == InitSpecFormat /\ [][NextFormat]_vars

InitSpecFetch == InitFetch /\ IdleBucket /\ IdleTop /\ IdleFormat /\ IdleQuery /\ IdleAppend /\ IdleMain
SpecFetch == InitSpecFetch /\ [][NextFetch]_vars

InitSpecQuery == InitQuery /\ IdleBucket /\ IdleTop /\ IdleFormat /\ IdleFetch /\ IdleAppend /\ IdleMain
SpecQuery == InitSpecQuery /\ [][NextQuery]_vars

InitSpecAppend ==
    /\ InitAppend /\ IdleBucket /\ IdleTop /\ IdleFetch /\ IdleQuery /\ IdleMain
    /\ project = ProjectBase /\ created = NoDate /\ report = ""
SpecAppend == InitSpecAppend /\ [][NextAppend]_vars

InitSpecMain ==
    /\ InitMain /\ IdleBucket /\ IdleTop /\ IdleFetch /\ IdleQuery /\ IdleAppend
    /\ project = ProjectBase /\ created = NoDate /\ report = ""
SpecMain == InitSpecMain /\ [][NextMain]_vars

\* the loop of notion_db_query runs on as long as it has a request to make
FairSpecQuery == SpecQuery /\ WF_vars(NextQuery)

\* every operation, each started on its own
Init ==
    \/ InitSpecBucket \/ InitSpecTop \/ InitSpecFormat \/ InitSpecFetch
    \/ InitSpecQuery \/ InitSpecAppend \/ InitSpecMain

Next ==
    \/ NextBucket \/ NextTop \/ NextFormat \/ NextFetch
    \/ NextQuery \/ NextAppend \/ NextMain

Spec == Init /\ [][Next]_vars

====
